---- MODULE Spec2Model ----
(***************************************************************************)
(* PointerEventManager (src/src/web/tools/PointerEventManager.ts): the     *)
(* listeners that turn native pointer notifications of one view into calls *)
(* to the gesture layer, with the pointer bookkeeping they keep.           *)
(*                                                                         *)
(* One action per listener, and one for resetManager.  A listener runs to  *)
(* completion, so an action is the whole listener: the state it writes,    *)
(* the outbound callbacks it makes (calls) and the capture requests it     *)
(* makes on the event's target (capCalls).  The fields of the event that   *)
(* a listener reads are the action's inputs; what the target answers to    *)
(* hasPointerCapture is an input too, since the element's capture is the   *)
(* platform's state and may be granted or dropped without the manager.     *)
(* The notification handled last is kept in the variable last, so that     *)
(* what a listener did can be related to what it was handed.               *)
(***************************************************************************)
EXTENDS Integers, Sequences, FiniteSets, TLC

(* ------------------------------ bounds --------------------------------- *)

\* The counter has no upper limit in the code; pointerdown is accepted in
\* the model only while the counter is below MaxCounter.
MaxCounter == 2

\* event.pointerId: two pointers, enough for a second pointer to go down,
\* move or come up while a first one is pressed.
PointerIds == {1, 2}

(* --------------------------- program constants -------------------------- *)

POINTER_CAPTURE_EXCLUDE_LIST == {"SELECT", "INPUT"}

PointerTypes == [Touch |-> "touch", Stylus |-> "pen"]

\* event.pointerType as the platform reports it.
NativePointerTypes == {"mouse", "pen", "touch"}

\* event.target.tagName: one element that may be captured, and the two
\* kinds of form control of the exclude list.
TagNames == {"DIV", "SELECT", "INPUT"}

\* The value of lastPosition.x and lastPosition.y before the first move.
Null == -1

\* Stands for an event field that is not read.
NoValue == "-"

\* view.getBoundingClientRect(): the rectangle of the view.
ViewRect == [left |-> 1, right |-> 2, top |-> 1, bottom |-> 1]

\* The coordinates <<clientX, clientY>> events arrive with: two points
\* inside the rectangle and two outside it, one that differs from an inside
\* point in x alone and one that differs from it in y alone.
Points == {<<1, 1>>, <<2, 1>>, <<0, 1>>, <<1, 0>>}

(* ------------------------------- state ---------------------------------- *)

VARIABLES
    activePointersCounter,  \* EventManager.activePointersCounter
    trackedPointers,        \* PointerEventManager.trackedPointers
    pointersInBounds,       \* EventManager.pointersInBounds (an array)
    lastPosition,           \* the lastPosition of setListeners' closure
    last,                   \* the notification handled last (or resetManager)
    calls,                  \* the outbound callbacks it made, in order
    capCalls,               \* the capture calls it made on its target
    reentered,              \* its callback called resetManager before returning
    history                 \* what the emissions and resets so far amount to

vars == <<activePointersCounter, trackedPointers, pointersInBounds,
          lastPosition, last, calls, capCalls, reentered, history>>

tracking == <<activePointersCounter, trackedPointers, pointersInBounds,
              lastPosition>>

(* ------------------------------ helpers --------------------------------- *)

\* utils.isPointerInBounds: the point lies in the view's rectangle.
isPointerInBounds(x, y) ==
    /\ x >= ViewRect.left
    /\ x <= ViewRect.right
    /\ y >= ViewRect.top
    /\ y <= ViewRect.bottom

\* Array.prototype.indexOf, 0-based, -1 when absent.
indexOf(arr, pointerId) ==
    IF \E i \in 1..Len(arr) : arr[i] = pointerId
    THEN (CHOOSE i \in 1..Len(arr) :
              /\ arr[i] = pointerId
              /\ \A j \in 1..(i - 1) : arr[j] # pointerId) - 1
    ELSE -1

\* EventManager.markAsInBounds: push the id unless it is there.
markAsInBounds(arr, pointerId) ==
    IF indexOf(arr, pointerId) >= 0 THEN arr ELSE Append(arr, pointerId)

\* EventManager.markAsOutOfBounds: splice the id out if it is there.
markAsOutOfBounds(arr, pointerId) ==
    LET index == indexOf(arr, pointerId) IN
    IF index < 0
    THEN arr
    ELSE SubSeq(arr, 1, index) \o SubSeq(arr, index + 2, Len(arr))

\* mapEvent: the fields of the adapted event the gesture layer is handed
\* that the listeners set or read (the id and the event type).
mapEvent(pointerId, eventType) ==
    [pointerId |-> pointerId, eventType |-> eventType]

\* One outbound call: the callback and the adapted event it receives.
Call(callback, adaptedEvent) ==
    [callback |-> callback, event |-> adaptedEvent]

\* One capture call on the event's target.  Whether the platform grants a
\* request is not the manager's to know (it fails silently): the manager
\* sees the element's capture only through hasPointerCapture.
CapCall(op, tagName, pointerId) ==
    [op |-> op, target |-> tagName, pointerId |-> pointerId]

\* A native notification as a listener is handed it: the event name and
\* the fields of the PointerEvent and of its target that the listeners read.
\* A field that the listener of that event never reads holds NoValue.
NativeEvent(op, pointerId, pointerType, x, y, tagName, hasPointerCapture) ==
    [op |-> op, pointerId |-> pointerId, pointerType |-> pointerType,
     x |-> x, y |-> y, tagName |-> tagName,
     hasPointerCapture |-> hasPointerCapture]

\* The value of last when no listener ran last (after construction, after
\* resetManager).
NoEvent(op) ==
    NativeEvent(op, NoValue, NoValue, NoValue, NoValue, NoValue, NoValue)

\* event.pointerType === PointerTypes.Touch
isTouch(pointerType) == pointerType = PointerTypes.Touch

\* POINTER_CAPTURE_EXCLUDE_LIST.has(target.tagName)
isExcluded(tagName) == tagName \in POINTER_CAPTURE_EXCLUDE_LIST

(* ------------------------------ initial --------------------------------- *)

\* The manager after construction.  The counter's 0 and the empty
\* pointersInBounds are set by EventManager, which is not among the sources:
\* they are taken from the specification (initial state IDLE, counter 0).
Init ==
    /\ activePointersCounter = 0
    /\ trackedPointers = {}
    /\ pointersInBounds = <<>>
    /\ lastPosition = [x |-> Null, y |-> Null]
    /\ last = NoEvent("init")
    /\ calls = <<>>
    /\ capCalls = <<>>
    /\ reentered = FALSE
    /\ history = [open |-> FALSE, live |-> FALSE]

(* ------------------------------ listeners ------------------------------- *)

\* downCall with the test of the counter left out.
downCall_AlwaysDown(counter, pointerId) ==
    Call("onPointerDown", mapEvent(pointerId, "DOWN"))

\* The callback of an accepted pointerdown, from the counter after ++.
downCall(counter, pointerId) ==
    IF counter > 1
    THEN Call("onPointerAdd", mapEvent(pointerId, "ADDITIONAL_POINTER_DOWN"))
    ELSE Call("onPointerDown", mapEvent(pointerId, "DOWN"))

\* The capture request of pointerdown.
downCapture(tagName, pointerId) ==
    IF ~isExcluded(tagName)
    THEN <<CapCall("setPointerCapture", tagName, pointerId)>>
    ELSE <<>>

PointerDown(pointerId, pointerType, x, y, tagName) ==
    /\ last' = NativeEvent("pointerdown", pointerId, pointerType, x, y, tagName,
                         NoValue)
    /\ IF isTouch(pointerType) \/ ~isPointerInBounds(x, y)
       THEN /\ calls' = <<>>
            /\ capCalls' = <<>>
            /\ UNCHANGED tracking
       ELSE /\ activePointersCounter < MaxCounter
            /\ capCalls' = downCapture(tagName, pointerId)
            /\ pointersInBounds' = markAsInBounds(pointersInBounds, pointerId)
            /\ trackedPointers' = trackedPointers \cup {pointerId}
            /\ activePointersCounter' = activePointersCounter + 1
            /\ calls' = <<downCall(activePointersCounter + 1, pointerId)>>
            /\ UNCHANGED lastPosition

\* upIgnored with the guard left out.
upIgnored_Never(counter) == FALSE

\* upIgnored with the guard testing for a counter already below zero.
upIgnored_BelowZero(counter) == counter < 0

\* The guard of pointerup against a counter that a reset has zeroed.
upIgnored(counter) == counter = 0

\* The pointerup dispatch with >= for >: onPointerRemove also at 0.
upCall_AlwaysRemove(counter, pointerId) ==
    IF counter >= 0
    THEN Call("onPointerRemove", mapEvent(pointerId, "ADDITIONAL_POINTER_UP"))
    ELSE Call("onPointerUp", mapEvent(pointerId, "UP"))

\* The callback of a processed pointerup, from the counter after --.
upCall(counter, pointerId) ==
    IF counter > 0
    THEN Call("onPointerRemove", mapEvent(pointerId, "ADDITIONAL_POINTER_UP"))
    ELSE Call("onPointerUp", mapEvent(pointerId, "UP"))

\* The release with the exclude test inverted.
upCapture_OnlyExcluded(tagName, pointerId) ==
    IF isExcluded(tagName)
    THEN <<CapCall("releasePointerCapture", tagName, pointerId)>>
    ELSE <<>>

\* The capture release of pointerup.
upCapture(tagName, pointerId) ==
    IF ~isExcluded(tagName)
    THEN <<CapCall("releasePointerCapture", tagName, pointerId)>>
    ELSE <<>>

\* pointerup without its trackedPointers.delete.
PointerUp_KeepsTracked(pointerId, pointerType, tagName) ==
    /\ last' = NativeEvent("pointerup", pointerId, pointerType, NoValue, NoValue,
                         tagName, NoValue)
    /\ IF isTouch(pointerType) \/ upIgnored(activePointersCounter)
       THEN /\ calls' = <<>>
            /\ capCalls' = <<>>
            /\ UNCHANGED tracking
       ELSE /\ capCalls' = upCapture(tagName, pointerId)
            /\ pointersInBounds' = markAsOutOfBounds(pointersInBounds, pointerId)
            /\ activePointersCounter' = activePointersCounter - 1
            /\ calls' = <<upCall(activePointersCounter - 1, pointerId)>>
            /\ UNCHANGED <<trackedPointers, lastPosition>>

PointerUp(pointerId, pointerType, tagName) ==
    /\ last' = NativeEvent("pointerup", pointerId, pointerType, NoValue, NoValue,
                         tagName, NoValue)
    /\ IF isTouch(pointerType) \/ upIgnored(activePointersCounter)
       THEN /\ calls' = <<>>
            /\ capCalls' = <<>>
            /\ UNCHANGED tracking
       ELSE /\ capCalls' = upCapture(tagName, pointerId)
            /\ pointersInBounds' = markAsOutOfBounds(pointersInBounds, pointerId)
            /\ trackedPointers' = trackedPointers \ {pointerId}
            /\ activePointersCounter' = activePointersCounter - 1
            /\ calls' = <<upCall(activePointersCounter - 1, pointerId)>>
            /\ UNCHANGED lastPosition

\* stylusUnmoved with the test of the device left out.
stylusUnmoved_AnyDevice(pointerType, x, y, position) ==
    /\ x = position.x
    /\ y = position.y

\* stylusUnmoved comparing x alone.
stylusUnmoved_XOnly(pointerType, x, y, position) ==
    /\ pointerType = PointerTypes.Stylus
    /\ x = position.x

\* The stylus filter of pointermove: a pen that has not moved.
stylusUnmoved(pointerType, x, y, position) ==
    /\ pointerType = PointerTypes.Stylus
    /\ x = position.x
    /\ y = position.y

\* moveCapture with the test of the exclude list left out.
moveCapture_NoExcludeList(hasPointerCapture, tagName, pointerId) ==
    IF ~hasPointerCapture
    THEN <<CapCall("setPointerCapture", tagName, pointerId)>>
    ELSE <<>>

\* The capture retry without the hasPointerCapture test.
moveCapture_IgnoresHeld(hasPointerCapture, tagName, pointerId) ==
    IF ~isExcluded(tagName)
    THEN <<CapCall("setPointerCapture", tagName, pointerId)>>
    ELSE <<>>

\* The capture retry of pointermove.
moveCapture(hasPointerCapture, tagName, pointerId) ==
    IF ~hasPointerCapture /\ ~isExcluded(tagName)
    THEN <<CapCall("setPointerCapture", tagName, pointerId)>>
    ELSE <<>>

\* moveCall taking index 0 for an absent pointer (<= 0 for < 0).
moveCall_IndexOffByOne(inBounds, pointerIndex, pointerId) ==
    IF inBounds
    THEN IF pointerIndex <= 0
         THEN Call("onPointerEnter", mapEvent(pointerId, "ENTER"))
         ELSE Call("onPointerMove", mapEvent(pointerId, "MOVE"))
    ELSE IF pointerIndex >= 0
         THEN Call("onPointerLeave", mapEvent(pointerId, "LEAVE"))
         ELSE Call("onPointerOutOfBounds", mapEvent(pointerId, "MOVE"))

\* The callback of a forwarded pointermove.
moveCall(inBounds, pointerIndex, pointerId) ==
    IF inBounds
    THEN IF pointerIndex < 0
         THEN Call("onPointerEnter", mapEvent(pointerId, "ENTER"))
         ELSE Call("onPointerMove", mapEvent(pointerId, "MOVE"))
    ELSE IF pointerIndex >= 0
         THEN Call("onPointerLeave", mapEvent(pointerId, "LEAVE"))
         ELSE Call("onPointerOutOfBounds", mapEvent(pointerId, "MOVE"))

\* The bounds bookkeeping of pointermove without the markAsOutOfBounds of
\* the LEAVE case.
moveBounds_NeverRemoves(arr, inBounds, pointerIndex, pointerId) ==
    IF inBounds /\ pointerIndex < 0
    THEN markAsInBounds(arr, pointerId)
    ELSE arr

\* pointersInBounds after a forwarded pointermove.
moveBounds(arr, inBounds, pointerIndex, pointerId) ==
    IF inBounds
    THEN IF pointerIndex < 0 THEN markAsInBounds(arr, pointerId) ELSE arr
    ELSE IF pointerIndex >= 0 THEN markAsOutOfBounds(arr, pointerId) ELSE arr

\* The listener reads the coordinate as event.x, event.y for the stylus
\* filter and lastPosition and as clientX, clientY for the bounds: the
\* platform defines x and y as aliases of clientX and clientY, so both are
\* the inputs x, y.
PointerMove(pointerId, pointerType, x, y, tagName, hasPointerCapture) ==
    /\ last' = NativeEvent("pointermove", pointerId, pointerType, x, y, tagName,
                         hasPointerCapture)
    /\ IF isTouch(pointerType) \/ stylusUnmoved(pointerType, x, y, lastPosition)
       THEN /\ calls' = <<>>
            /\ capCalls' = <<>>
            /\ UNCHANGED tracking
       ELSE LET inBounds == isPointerInBounds(x, y)
                pointerIndex == indexOf(pointersInBounds, pointerId)
            IN  /\ capCalls' = moveCapture(hasPointerCapture, tagName, pointerId)
                /\ calls' = <<moveCall(inBounds, pointerIndex, pointerId)>>
                /\ pointersInBounds' =
                       moveBounds(pointersInBounds, inBounds, pointerIndex, pointerId)
                /\ lastPosition' = [x |-> x, y |-> y]
                /\ UNCHANGED <<activePointersCounter, trackedPointers>>

\* PointerCancel with trackedPointers.clear() left out.
PointerCancel_KeepsTracked(pointerId, pointerType) ==
    /\ last' = NativeEvent("pointercancel", pointerId, pointerType, NoValue,
                         NoValue, NoValue, NoValue)
    /\ capCalls' = <<>>
    /\ IF isTouch(pointerType)
       THEN /\ calls' = <<>>
            /\ UNCHANGED tracking
       ELSE /\ calls' = <<Call("onPointerCancel", mapEvent(pointerId, "CANCEL"))>>
            /\ pointersInBounds' = markAsOutOfBounds(pointersInBounds, pointerId)
            /\ activePointersCounter' = 0
            /\ UNCHANGED <<trackedPointers, lastPosition>>

\* pointercancel without its markAsOutOfBounds.
PointerCancel_KeepsInBounds(pointerId, pointerType) ==
    /\ last' = NativeEvent("pointercancel", pointerId, pointerType, NoValue,
                         NoValue, NoValue, NoValue)
    /\ capCalls' = <<>>
    /\ IF isTouch(pointerType)
       THEN /\ calls' = <<>>
            /\ UNCHANGED tracking
       ELSE /\ calls' = <<Call("onPointerCancel", mapEvent(pointerId, "CANCEL"))>>
            /\ activePointersCounter' = 0
            /\ trackedPointers' = {}
            /\ UNCHANGED <<pointersInBounds, lastPosition>>

PointerCancel(pointerId, pointerType) ==
    /\ last' = NativeEvent("pointercancel", pointerId, pointerType, NoValue,
                         NoValue, NoValue, NoValue)
    /\ capCalls' = <<>>
    /\ IF isTouch(pointerType)
       THEN /\ calls' = <<>>
            /\ UNCHANGED tracking
       ELSE /\ calls' = <<Call("onPointerCancel", mapEvent(pointerId, "CANCEL"))>>
            /\ pointersInBounds' = markAsOutOfBounds(pointersInBounds, pointerId)
            /\ activePointersCounter' = 0
            /\ trackedPointers' = {}
            /\ UNCHANGED lastPosition

PointerEnter(pointerId, pointerType) ==
    /\ last' = NativeEvent("pointerenter", pointerId, pointerType, NoValue,
                         NoValue, NoValue, NoValue)
    /\ capCalls' = <<>>
    /\ calls' = IF isTouch(pointerType)
                THEN <<>>
                ELSE <<Call("onPointerMoveOver", mapEvent(pointerId, "ENTER"))>>
    /\ UNCHANGED tracking

PointerLeave(pointerId, pointerType) ==
    /\ last' = NativeEvent("pointerleave", pointerId, pointerType, NoValue,
                         NoValue, NoValue, NoValue)
    /\ capCalls' = <<>>
    /\ calls' = IF isTouch(pointerType)
                THEN <<>>
                ELSE <<Call("onPointerMoveOut", mapEvent(pointerId, "LEAVE"))>>
    /\ UNCHANGED tracking

\* lostpointercapture without its trackedPointers.clear().
LostPointerCapture_KeepsTracked(pointerId, pointerType) ==
    /\ last' = NativeEvent("lostpointercapture", pointerId, pointerType, NoValue,
                         NoValue, NoValue, NoValue)
    /\ capCalls' = <<>>
    /\ IF pointerId \in trackedPointers
       THEN /\ calls' = <<Call("onPointerCancel", mapEvent(pointerId, "CANCEL"))>>
            /\ activePointersCounter' = 0
            /\ UNCHANGED <<trackedPointers, pointersInBounds, lastPosition>>
       ELSE /\ calls' = <<>>
            /\ UNCHANGED tracking

\* lostpointercapture reads no pointerType: the event's type is an input
\* of the action that the listener ignores.
LostPointerCapture(pointerId, pointerType) ==
    /\ last' = NativeEvent("lostpointercapture", pointerId, pointerType, NoValue,
                         NoValue, NoValue, NoValue)
    /\ capCalls' = <<>>
    /\ IF pointerId \in trackedPointers
       THEN /\ calls' = <<Call("onPointerCancel", mapEvent(pointerId, "CANCEL"))>>
            /\ activePointersCounter' = 0
            /\ trackedPointers' = {}
            /\ UNCHANGED <<pointersInBounds, lastPosition>>
       ELSE /\ calls' = <<>>
            /\ UNCHANGED tracking

\* EventManager.resetManager (super.resetManager()): the value it gives the
\* counter.
superResetManager == 0

\* resetManager without its trackedPointers.clear().
ResetManager_KeepsTracked ==
    /\ last' = NoEvent("resetManager")
    /\ calls' = <<>>
    /\ capCalls' = <<>>
    /\ activePointersCounter' = superResetManager
    /\ UNCHANGED <<trackedPointers, pointersInBounds, lastPosition>>

\* resetManager without its super.resetManager().
ResetManager_SkipsSuper ==
    /\ last' = NoEvent("resetManager")
    /\ calls' = <<>>
    /\ capCalls' = <<>>
    /\ trackedPointers' = {}
    /\ UNCHANGED <<activePointersCounter, pointersInBounds, lastPosition>>

\* resetManager: super.resetManager(), then the tracked pointers are cleared.
ResetManager ==
    /\ last' = NoEvent("resetManager")
    /\ calls' = <<>>
    /\ capCalls' = <<>>
    /\ activePointersCounter' = superResetManager
    /\ trackedPointers' = {}
    /\ UNCHANGED <<pointersInBounds, lastPosition>>

(* ---------------- resetManager called from inside a callback ------------ *)

\* The gesture layer may call resetManager before the callback it was
\* handed returns.  Each action below is one listener run in which the
\* callback does so: what the listener wrote before the callback, then
\* resetManager's writes (counter and trackedPointers), then what the
\* listener writes after the callback has returned.

\* pointerdown with the trackedPointers.add moved after the callback.
PointerDownReentrant_AddsAfterCallback(pointerId, pointerType, x, y, tagName) ==
    /\ ~isTouch(pointerType)
    /\ isPointerInBounds(x, y)
    /\ activePointersCounter < MaxCounter
    /\ last' = NativeEvent("pointerdown", pointerId, pointerType, x, y,
                         tagName, NoValue)
    /\ capCalls' = downCapture(tagName, pointerId)
    /\ pointersInBounds' = markAsInBounds(pointersInBounds, pointerId)
    /\ calls' = <<downCall(activePointersCounter + 1, pointerId)>>
    /\ activePointersCounter' = superResetManager
    /\ trackedPointers' = {pointerId}
    /\ UNCHANGED lastPosition
    /\ reentered' = TRUE

\* pointerdown: capture, markAsInBounds, add and ++counter come before the
\* callback; nothing is written after it.
PointerDownReentrant(pointerId, pointerType, x, y, tagName) ==
    /\ ~isTouch(pointerType)
    /\ isPointerInBounds(x, y)
    /\ activePointersCounter < MaxCounter
    /\ last' = NativeEvent("pointerdown", pointerId, pointerType, x, y,
                         tagName, NoValue)
    /\ capCalls' = downCapture(tagName, pointerId)
    /\ pointersInBounds' = markAsInBounds(pointersInBounds, pointerId)
    /\ calls' = <<downCall(activePointersCounter + 1, pointerId)>>
    /\ activePointersCounter' = superResetManager
    /\ trackedPointers' = {}
    /\ UNCHANGED lastPosition
    /\ reentered' = TRUE

\* pointerup: release, markAsOutOfBounds, delete and --counter come before
\* the callback; nothing is written after it.
PointerUpReentrant(pointerId, pointerType, tagName) ==
    /\ ~isTouch(pointerType)
    /\ ~upIgnored(activePointersCounter)
    /\ last' = NativeEvent("pointerup", pointerId, pointerType, NoValue,
                         NoValue, tagName, NoValue)
    /\ capCalls' = upCapture(tagName, pointerId)
    /\ pointersInBounds' = markAsOutOfBounds(pointersInBounds, pointerId)
    /\ calls' = <<upCall(activePointersCounter - 1, pointerId)>>
    /\ activePointersCounter' = superResetManager
    /\ trackedPointers' = {}
    /\ UNCHANGED lastPosition
    /\ reentered' = TRUE

\* pointermove: the capture retry comes before the callback; markAsInBounds
\* or markAsOutOfBounds and the lastPosition update come after it.
PointerMoveReentrant(pointerId, pointerType, x, y, tagName, hasPointerCapture) ==
    /\ ~isTouch(pointerType)
    /\ ~stylusUnmoved(pointerType, x, y, lastPosition)
    /\ last' = NativeEvent("pointermove", pointerId, pointerType, x, y,
                         tagName, hasPointerCapture)
    /\ LET inBounds == isPointerInBounds(x, y)
           pointerIndex == indexOf(pointersInBounds, pointerId)
       IN  /\ capCalls' = moveCapture(hasPointerCapture, tagName, pointerId)
           /\ calls' = <<moveCall(inBounds, pointerIndex, pointerId)>>
           /\ activePointersCounter' = superResetManager
           /\ trackedPointers' = {}
           /\ pointersInBounds' =
                  moveBounds(pointersInBounds, inBounds, pointerIndex, pointerId)
           /\ lastPosition' = [x |-> x, y |-> y]
    /\ reentered' = TRUE

\* pointercancel: markAsOutOfBounds, counter = 0 and clear() come after the
\* callback.
PointerCancelReentrant(pointerId, pointerType) ==
    /\ ~isTouch(pointerType)
    /\ last' = NativeEvent("pointercancel", pointerId, pointerType, NoValue,
                         NoValue, NoValue, NoValue)
    /\ capCalls' = <<>>
    /\ calls' = <<Call("onPointerCancel", mapEvent(pointerId, "CANCEL"))>>
    /\ pointersInBounds' = markAsOutOfBounds(pointersInBounds, pointerId)
    /\ activePointersCounter' = 0
    /\ trackedPointers' = {}
    /\ UNCHANGED lastPosition
    /\ reentered' = TRUE

\* pointerenter: the listener writes nothing.
PointerEnterReentrant(pointerId, pointerType) ==
    /\ ~isTouch(pointerType)
    /\ last' = NativeEvent("pointerenter", pointerId, pointerType, NoValue,
                         NoValue, NoValue, NoValue)
    /\ capCalls' = <<>>
    /\ calls' = <<Call("onPointerMoveOver", mapEvent(pointerId, "ENTER"))>>
    /\ activePointersCounter' = superResetManager
    /\ trackedPointers' = {}
    /\ UNCHANGED <<pointersInBounds, lastPosition>>
    /\ reentered' = TRUE

\* pointerleave: the listener writes nothing.
PointerLeaveReentrant(pointerId, pointerType) ==
    /\ ~isTouch(pointerType)
    /\ last' = NativeEvent("pointerleave", pointerId, pointerType, NoValue,
                         NoValue, NoValue, NoValue)
    /\ capCalls' = <<>>
    /\ calls' = <<Call("onPointerMoveOut", mapEvent(pointerId, "LEAVE"))>>
    /\ activePointersCounter' = superResetManager
    /\ trackedPointers' = {}
    /\ UNCHANGED <<pointersInBounds, lastPosition>>
    /\ reentered' = TRUE

\* lostpointercapture: counter = 0 and clear() come after the callback.
LostPointerCaptureReentrant(pointerId, pointerType) ==
    /\ pointerId \in trackedPointers
    /\ last' = NativeEvent("lostpointercapture", pointerId, pointerType, NoValue,
                         NoValue, NoValue, NoValue)
    /\ capCalls' = <<>>
    /\ calls' = <<Call("onPointerCancel", mapEvent(pointerId, "CANCEL"))>>
    /\ activePointersCounter' = 0
    /\ trackedPointers' = {}
    /\ UNCHANGED <<pointersInBounds, lastPosition>>
    /\ reentered' = TRUE

(* --------------------------- specifications ---------------------------- *)

\* What the emissions and resets so far amount to, after one more
\* operation that emitted the event types `emitted` (in order) and then, if
\* `reset`, had resetManager called: open = a DOWN was emitted and no UP, no
\* CANCEL and no resetManager call came after it; live = a DOWN was emitted
\* and no CANCEL and no resetManager call came after it.
RECURSIVE recordEmissions(_, _)
recordEmissions(h, emitted) ==
    IF emitted = <<>>
    THEN h
    ELSE recordEmissions(
             CASE Head(emitted) = "DOWN" -> [open |-> TRUE, live |-> TRUE]
               [] Head(emitted) = "UP" -> [open |-> FALSE, live |-> h.live]
               [] Head(emitted) = "CANCEL" -> [open |-> FALSE, live |-> FALSE]
               [] OTHER -> h,
             Tail(emitted))

recordOperation(h, emitted, reset) ==
    IF reset
    THEN [open |-> FALSE, live |-> FALSE]
    ELSE recordEmissions(h, emitted)

\* The callback, if one was made, returned without calling resetManager.
NotReentered == reentered' = FALSE

\* The history is not kept.
Unrecorded == UNCHANGED history

\* The history is kept.
Recorded ==
    history' = recordOperation(
                   history,
                   [i \in 1..Len(calls') |-> calls'[i].event.eventType],
                   reentered' \/ last'.op = "resetManager")

\* The listeners and resetManager, on any input, with callbacks that return
\* without calling back into the manager.
Next ==
    \/ \E pointerId \in PointerIds, pointerType \in NativePointerTypes,
          point \in Points, tagName \in TagNames :
          /\ PointerDown(pointerId, pointerType, point[1], point[2], tagName)
          /\ NotReentered /\ Unrecorded
    \/ \E pointerId \in PointerIds, pointerType \in NativePointerTypes,
          tagName \in TagNames :
          /\ PointerUp(pointerId, pointerType, tagName)
          /\ NotReentered /\ Unrecorded
    \/ \E pointerId \in PointerIds, pointerType \in NativePointerTypes,
          point \in Points, tagName \in TagNames,
          hasPointerCapture \in BOOLEAN :
          /\ PointerMove(pointerId, pointerType, point[1], point[2], tagName,
                         hasPointerCapture)
          /\ NotReentered /\ Unrecorded
    \/ \E pointerId \in PointerIds, pointerType \in NativePointerTypes :
          /\ PointerCancel(pointerId, pointerType)
          /\ NotReentered /\ Unrecorded
    \/ \E pointerId \in PointerIds, pointerType \in NativePointerTypes :
          /\ PointerEnter(pointerId, pointerType)
          /\ NotReentered /\ Unrecorded
    \/ \E pointerId \in PointerIds, pointerType \in NativePointerTypes :
          /\ PointerLeave(pointerId, pointerType)
          /\ NotReentered /\ Unrecorded
    \/ \E pointerId \in PointerIds, pointerType \in NativePointerTypes :
          /\ LostPointerCapture(pointerId, pointerType)
          /\ NotReentered /\ Unrecorded
    \/ /\ ResetManager
       /\ NotReentered /\ Unrecorded

Spec == Init /\ [][Next]_vars

\* The same, with callbacks that may call resetManager before they return,
\* and with the history kept.
NextReentrant ==
    \/ \E pointerId \in PointerIds, pointerType \in NativePointerTypes,
          point \in Points, tagName \in TagNames :
          /\ PointerDown(pointerId, pointerType, point[1], point[2], tagName)
          /\ NotReentered /\ Recorded
    \/ \E pointerId \in PointerIds, pointerType \in NativePointerTypes,
          point \in Points, tagName \in TagNames :
          /\ PointerDownReentrant(pointerId, pointerType, point[1], point[2],
                                  tagName)
          /\ Recorded
    \/ \E pointerId \in PointerIds, pointerType \in NativePointerTypes,
          tagName \in TagNames :
          /\ PointerUp(pointerId, pointerType, tagName)
          /\ NotReentered /\ Recorded
    \/ \E pointerId \in PointerIds, pointerType \in NativePointerTypes,
          tagName \in TagNames :
          /\ PointerUpReentrant(pointerId, pointerType, tagName)
          /\ Recorded
    \/ \E pointerId \in PointerIds, pointerType \in NativePointerTypes,
          point \in Points, tagName \in TagNames,
          hasPointerCapture \in BOOLEAN :
          /\ PointerMove(pointerId, pointerType, point[1], point[2], tagName,
                         hasPointerCapture)
          /\ NotReentered /\ Recorded
    \/ \E pointerId \in PointerIds, pointerType \in NativePointerTypes,
          point \in Points, tagName \in TagNames,
          hasPointerCapture \in BOOLEAN :
          /\ PointerMoveReentrant(pointerId, pointerType, point[1], point[2],
                                  tagName, hasPointerCapture)
          /\ Recorded
    \/ \E pointerId \in PointerIds, pointerType \in NativePointerTypes :
          /\ PointerCancel(pointerId, pointerType)
          /\ NotReentered /\ Recorded
    \/ \E pointerId \in PointerIds, pointerType \in NativePointerTypes :
          /\ PointerCancelReentrant(pointerId, pointerType)
          /\ Recorded
    \/ \E pointerId \in PointerIds, pointerType \in NativePointerTypes :
          /\ PointerEnter(pointerId, pointerType)
          /\ NotReentered /\ Recorded
    \/ \E pointerId \in PointerIds, pointerType \in NativePointerTypes :
          /\ PointerEnterReentrant(pointerId, pointerType)
          /\ Recorded
    \/ \E pointerId \in PointerIds, pointerType \in NativePointerTypes :
          /\ PointerLeave(pointerId, pointerType)
          /\ NotReentered /\ Recorded
    \/ \E pointerId \in PointerIds, pointerType \in NativePointerTypes :
          /\ PointerLeaveReentrant(pointerId, pointerType)
          /\ Recorded
    \/ \E pointerId \in PointerIds, pointerType \in NativePointerTypes :
          /\ LostPointerCapture(pointerId, pointerType)
          /\ NotReentered /\ Recorded
    \/ \E pointerId \in PointerIds, pointerType \in NativePointerTypes :
          /\ LostPointerCaptureReentrant(pointerId, pointerType)
          /\ Recorded
    \/ /\ ResetManager
       /\ NotReentered /\ Recorded

SpecReentrant == Init /\ [][NextReentrant]_vars

\* Well-formed input: a pointerdown arrives only for an id that is not in
\* trackedPointers, and a pointerup that finds the counter above 0 arrives
\* only for an id that is in trackedPointers.
downWellFormed(pointerId) == pointerId \notin trackedPointers

upWellFormed(pointerId) ==
    activePointersCounter > 0 => pointerId \in trackedPointers

\* The listeners and resetManager on well-formed input, with callbacks that
\* may call resetManager before they return.
NextWellFormed ==
    \/ \E pointerId \in PointerIds, pointerType \in NativePointerTypes,
          point \in Points, tagName \in TagNames :
          /\ downWellFormed(pointerId)
          /\ PointerDown(pointerId, pointerType, point[1], point[2], tagName)
          /\ NotReentered /\ Unrecorded
    \/ \E pointerId \in PointerIds, pointerType \in NativePointerTypes,
          point \in Points, tagName \in TagNames :
          /\ downWellFormed(pointerId)
          /\ PointerDownReentrant(pointerId, pointerType, point[1], point[2],
                                  tagName)
          /\ Unrecorded
    \/ \E pointerId \in PointerIds, pointerType \in NativePointerTypes,
          tagName \in TagNames :
          /\ upWellFormed(pointerId)
          /\ PointerUp(pointerId, pointerType, tagName)
          /\ NotReentered /\ Unrecorded
    \/ \E pointerId \in PointerIds, pointerType \in NativePointerTypes,
          tagName \in TagNames :
          /\ upWellFormed(pointerId)
          /\ PointerUpReentrant(pointerId, pointerType, tagName)
          /\ Unrecorded
    \/ \E pointerId \in PointerIds, pointerType \in NativePointerTypes,
          point \in Points, tagName \in TagNames,
          hasPointerCapture \in BOOLEAN :
          /\ PointerMove(pointerId, pointerType, point[1], point[2], tagName,
                         hasPointerCapture)
          /\ NotReentered /\ Unrecorded
    \/ \E pointerId \in PointerIds, pointerType \in NativePointerTypes,
          point \in Points, tagName \in TagNames,
          hasPointerCapture \in BOOLEAN :
          /\ PointerMoveReentrant(pointerId, pointerType, point[1], point[2],
                                  tagName, hasPointerCapture)
          /\ Unrecorded
    \/ \E pointerId \in PointerIds, pointerType \in NativePointerTypes :
          /\ PointerCancel(pointerId, pointerType)
          /\ NotReentered /\ Unrecorded
    \/ \E pointerId \in PointerIds, pointerType \in NativePointerTypes :
          /\ PointerCancelReentrant(pointerId, pointerType)
          /\ Unrecorded
    \/ \E pointerId \in PointerIds, pointerType \in NativePointerTypes :
          /\ PointerEnter(pointerId, pointerType)
          /\ NotReentered /\ Unrecorded
    \/ \E pointerId \in PointerIds, pointerType \in NativePointerTypes :
          /\ PointerEnterReentrant(pointerId, pointerType)
          /\ Unrecorded
    \/ \E pointerId \in PointerIds, pointerType \in NativePointerTypes :
          /\ PointerLeave(pointerId, pointerType)
          /\ NotReentered /\ Unrecorded
    \/ \E pointerId \in PointerIds, pointerType \in NativePointerTypes :
          /\ PointerLeaveReentrant(pointerId, pointerType)
          /\ Unrecorded
    \/ \E pointerId \in PointerIds, pointerType \in NativePointerTypes :
          /\ LostPointerCapture(pointerId, pointerType)
          /\ NotReentered /\ Unrecorded
    \/ \E pointerId \in PointerIds, pointerType \in NativePointerTypes :
          /\ LostPointerCaptureReentrant(pointerId, pointerType)
          /\ Unrecorded
    \/ /\ ResetManager
       /\ NotReentered /\ Unrecorded

SpecWellFormed == Init /\ [][NextWellFormed]_vars


(* ====================== the claims about the manager ==================== *)

\* The event types of the outbound calls of the last operation, in order.
Emitted == [i \in 1..Len(calls) |-> calls[i].event.eventType]

\* The callbacks of the outbound calls of the last operation, in order.
Callbacks == [i \in 1..Len(calls) |-> calls[i].callback]

\* The ids listed in pointersInBounds.
InBoundsIds == {pointersInBounds[i] : i \in 1..Len(pointersInBounds)}

\* The seven native notifications.
NativeOps == {"pointerdown", "pointerup", "pointermove", "pointercancel",
              "pointerenter", "pointerleave", "lostpointercapture"}

(* -------------------------------- C1 ------------------------------------ *)

\* C1: in every reachable state the number of ids in trackedPointers equals
\* activePointersCounter.
C1_TrackedMatchesCounter ==
    Cardinality(trackedPointers) = activePointersCounter

(* -------------------------------- C2 ------------------------------------ *)

\* C2: activePointersCounter is never negative, also when a pointerup
\* arrives after the counter has been zeroed.
C2_CounterNeverNegative ==
    activePointersCounter >= 0

\* A non-touch pointerup arrived at counter 0 for a pointer that is still
\* listed in pointersInBounds (it went down or moved in, and the counter
\* was zeroed before it came up).
C2_Witness ==
    /\ last.op = "pointerup"
    /\ last.pointerType # "touch"
    /\ calls = <<>>
    /\ activePointersCounter = 0
    /\ last.pointerId \in InBoundsIds

(* -------------------------------- C3 ------------------------------------ *)

\* C3: an accepted pointerdown (not touch, coordinate in bounds) makes
\* exactly one outbound call: onPointerDown with DOWN when the counter was
\* 0, onPointerAdd with ADDITIONAL_POINTER_DOWN when it was above 0.
C3_DownOrAdditionalDown ==
    [][( /\ last'.op = "pointerdown"
         /\ last'.pointerType # "touch"
         /\ isPointerInBounds(last'.x, last'.y) )
       => IF activePointersCounter = 0
          THEN /\ Callbacks' = <<"onPointerDown">>
               /\ Emitted' = <<"DOWN">>
          ELSE /\ Callbacks' = <<"onPointerAdd">>
               /\ Emitted' = <<"ADDITIONAL_POINTER_DOWN">>
      ]_vars

\* A second pointer went down while a first one was pressed.
C3_Witness ==
    /\ last.op = "pointerdown"
    /\ Emitted = <<"ADDITIONAL_POINTER_DOWN">>
    /\ trackedPointers = {1, 2}

(* -------------------------------- C4 ------------------------------------ *)

\* C4: a pointerup received while the counter is 0 makes no outbound call
\* and no capture call, and leaves the counter, trackedPointers and
\* pointersInBounds as they were.
C4_UpAtZeroIsNoOp ==
    [][(last'.op = "pointerup" /\ activePointersCounter = 0)
       => /\ calls' = <<>>
          /\ capCalls' = <<>>
          /\ UNCHANGED <<activePointersCounter, trackedPointers,
                         pointersInBounds>>
      ]_vars

\* A mouse pointerup on an element that may be captured arrived at counter
\* 0 for a pointer that is still tracked and still in bounds: nothing was
\* called, released or removed.
C4_Witness ==
    /\ last.op = "pointerup"
    /\ last.pointerType = "mouse"
    /\ last.tagName = "DIV"
    /\ calls = <<>>
    /\ capCalls = <<>>
    /\ activePointersCounter = 0
    /\ last.pointerId \in trackedPointers
    /\ last.pointerId \in InBoundsIds

(* -------------------------------- C5 ------------------------------------ *)

\* C5: when the listener of a non-touch pointercancel returns, the counter
\* is 0, trackedPointers is empty, and it has called onPointerCancel once,
\* with event type CANCEL.
C5_CancelResets ==
    (last.op = "pointercancel" /\ last.pointerType # "touch")
    => /\ activePointersCounter = 0
       /\ trackedPointers = {}
       /\ Callbacks = <<"onPointerCancel">>
       /\ Emitted = <<"CANCEL">>

\* A pointercancel of one pointer was handled while the other pointer was
\* in bounds.
C5_Witness ==
    /\ last.op = "pointercancel"
    /\ last.pointerType = "mouse"
    /\ Emitted = <<"CANCEL">>
    /\ InBoundsIds = PointerIds \ {last.pointerId}

(* -------------------------------- C6 ------------------------------------ *)

\* C6: a native notification makes at most one outbound call, and exactly
\* one unless it is filtered or suppressed: a touch device, a pointerdown
\* out of bounds, a pointerup at counter 0, a stylus move at the last
\* position, a lostpointercapture of an id that is not tracked.
C6_OneCallPerNotification ==
    [][ /\ Len(calls') <= 1
        /\ ( /\ last'.op \in NativeOps
             /\ last'.pointerType # "touch"
             /\ ~(last'.op = "pointerdown"
                    /\ ~isPointerInBounds(last'.x, last'.y))
             /\ ~(last'.op = "pointerup" /\ activePointersCounter = 0)
             /\ ~(last'.op = "pointermove"
                    /\ last'.pointerType = "pen"
                    /\ last'.x = lastPosition.x
                    /\ last'.y = lastPosition.y)
             /\ ~(last'.op = "lostpointercapture"
                    /\ last'.pointerId \notin trackedPointers) )
           => Len(calls') = 1
      ]_vars

\* A stylus move outside the bounds, of a pointer that was outside, was let
\* through by the stylus filter and made its one call.
C6_Witness ==
    /\ last.op = "pointermove"
    /\ last.pointerType = "pen"
    /\ Callbacks = <<"onPointerOutOfBounds">>
    /\ Emitted = <<"MOVE">>

(* -------------------------------- C7 ------------------------------------ *)

\* C7: a listener handed an event whose target is a SELECT or an INPUT
\* calls neither setPointerCapture nor releasePointerCapture.
C7_NoCaptureCallOnExcluded ==
    (last.tagName \in {"SELECT", "INPUT"}) => capCalls = <<>>

\* A pointermove on an INPUT that does not hold capture was forwarded for a
\* tracked pointer.
C7_Witness ==
    /\ last.op = "pointermove"
    /\ last.tagName = "INPUT"
    /\ last.hasPointerCapture = FALSE
    /\ Len(calls) = 1
    /\ last.pointerId \in trackedPointers

(* -------------------------------- C8 ------------------------------------ *)

\* C8: lastPosition is the coordinate of the last forwarded pointermove,
\* of whichever pointer.  A stylus pointermove at lastPosition makes no
\* outbound call and no capture call and leaves pointersInBounds and
\* lastPosition as they were; a pointermove of a device that is neither
\* stylus nor touch is forwarded at any coordinate.
C8_StylusDeduplication ==
    [][ /\ IF last'.op = "pointermove" /\ calls' # <<>>
           THEN lastPosition' = [x |-> last'.x, y |-> last'.y]
           ELSE UNCHANGED lastPosition
        /\ ( /\ last'.op = "pointermove"
             /\ last'.pointerType = "pen"
             /\ last'.x = lastPosition.x
             /\ last'.y = lastPosition.y )
           => /\ calls' = <<>>
              /\ capCalls' = <<>>
              /\ UNCHANGED <<pointersInBounds, lastPosition>>
        /\ ( /\ last'.op = "pointermove"
             /\ last'.pointerType \notin {"pen", "touch"} )
           => Len(calls') = 1
      ]_vars

\* A stylus move at the last position, on an element that may be captured
\* and does not hold capture, made no call.
C8_Witness ==
    /\ last.op = "pointermove"
    /\ last.pointerType = "pen"
    /\ last.x = lastPosition.x
    /\ last.y = lastPosition.y
    /\ last.tagName = "DIV"
    /\ last.hasPointerCapture = FALSE
    /\ calls = <<>>
    /\ capCalls = <<>>

(* -------------------------------- C9 ------------------------------------ *)

\* C9: a pointermove that takes a pointer from outside to inside the
\* bounds emits exactly one ENTER, and the next pointermove of the same
\* pointer at the same, still inside, coordinate emits MOVE.
C9_EnterThenMove ==
    [][ /\ ( /\ last'.op = "pointermove"
             /\ last'.pointerType # "touch"
             /\ last'.pointerId \notin InBoundsIds
             /\ isPointerInBounds(last'.x, last'.y) )
           => Emitted' = <<"ENTER">>
        /\ ( /\ last.op = "pointermove"
             /\ Emitted = <<"ENTER">>
             /\ last'.op = "pointermove"
             /\ last'.pointerId = last.pointerId
             /\ last'.pointerType = last.pointerType
             /\ last'.x = last.x
             /\ last'.y = last.y
             /\ isPointerInBounds(last'.x, last'.y) )
           => Emitted' = <<"MOVE">>
      ]_vars

\* C9, amended: a pointermove that the stylus filter lets through and that
\* takes a pointer from outside to inside the bounds emits exactly one
\* ENTER; the pointermove of the same pointer that follows it at once, at
\* the same, still inside, coordinate emits MOVE for a device that is not
\* a stylus, and is suppressed (no outbound call) for a stylus.
C9_EnterThenMoveUnlessStylus ==
    [][ /\ ( /\ last'.op = "pointermove"
             /\ last'.pointerType # "touch"
             /\ ~(last'.pointerType = "pen"
                    /\ last'.x = lastPosition.x
                    /\ last'.y = lastPosition.y)
             /\ last'.pointerId \notin InBoundsIds
             /\ isPointerInBounds(last'.x, last'.y) )
           => Emitted' = <<"ENTER">>
        /\ ( /\ last.op = "pointermove"
             /\ Emitted = <<"ENTER">>
             /\ last'.op = "pointermove"
             /\ last'.pointerId = last.pointerId
             /\ last'.pointerType = last.pointerType
             /\ last'.x = last.x
             /\ last'.y = last.y
             /\ isPointerInBounds(last'.x, last'.y) )
           => Emitted' = IF last'.pointerType = "pen"
                         THEN <<>>
                         ELSE <<"MOVE">>
      ]_vars

\* A stylus move took the second pointer into the bounds, where the first
\* pointer already was, and emitted ENTER.
C9_Witness ==
    /\ last.op = "pointermove"
    /\ last.pointerType = "pen"
    /\ Emitted = <<"ENTER">>
    /\ pointersInBounds = <<1, 2>>
    /\ last.pointerId = 2

(* -------------------------------- C10 ----------------------------------- *)

\* C10: a notification of a touch device, handed to any of the seven
\* listeners, makes no outbound call and no capture call and leaves the
\* counter, trackedPointers and pointersInBounds as they were.
C10_TouchDropped ==
    [][(last'.op \in NativeOps /\ last'.pointerType = "touch")
       => /\ calls' = <<>>
          /\ capCalls' = <<>>
          /\ UNCHANGED <<activePointersCounter, trackedPointers,
                         pointersInBounds>>
      ]_vars

(* -------------------------------- C11 ----------------------------------- *)

\* C11: resetManager can be called in every reachable state (in the middle
\* of a gesture, and when the counter is 0 and trackedPointers is empty
\* already); it makes no outbound call and leaves the counter 0 and
\* trackedPointers empty; a second call right after the first changes
\* nothing.
C11_ResetAnywhereAndIdempotent ==
    /\ [](ENABLED ResetManager)
    /\ [][last'.op = "resetManager"
           => /\ activePointersCounter' = 0
              /\ trackedPointers' = {}
              /\ calls' = <<>>
              /\ UNCHANGED <<pointersInBounds, lastPosition>>
         ]_vars
    /\ [][(last.op = "resetManager" /\ last'.op = "resetManager")
           => UNCHANGED vars
         ]_vars

\* resetManager was called in the middle of a gesture: the pointer that
\* went down is still listed in pointersInBounds.
C11_Witness ==
    /\ last.op = "resetManager"
    /\ activePointersCounter = 0
    /\ trackedPointers = {}
    /\ pointersInBounds = <<1, 2>>

(* -------------------------------- C12 ----------------------------------- *)

\* C12 as stated: every pointerup of a non-touch device whose target is
\* not SELECT or INPUT calls releasePointerCapture for the event's id,
\* whatever happened since the pointer went down.
C12_ReleaseOnEveryUp ==
    (/\ last.op = "pointerup"
     /\ last.pointerType # "touch"
     /\ last.tagName \notin {"SELECT", "INPUT"})
    => capCalls = <<[op |-> "releasePointerCapture",
                     target |-> last.tagName,
                     pointerId |-> last.pointerId]>>

\* C12, amended: a pointerup of a non-touch device calls
\* releasePointerCapture for the event's id, once, exactly when the counter
\* is above 0 as it arrives and its target is not SELECT or INPUT; a
\* pointerup that arrives at counter 0 makes no capture call.
C12_ReleaseOnProcessedUp ==
    [][(last'.op = "pointerup" /\ last'.pointerType # "touch")
       => capCalls' = IF /\ activePointersCounter > 0
                         /\ last'.tagName \notin {"SELECT", "INPUT"}
                      THEN <<[op |-> "releasePointerCapture",
                              target |-> last'.tagName,
                              pointerId |-> last'.pointerId]>>
                      ELSE <<>>
      ]_vars

\* One of two pressed pointers went up and its capture was released.
C12_Witness ==
    /\ last.op = "pointerup"
    /\ last.pointerType = "mouse"
    /\ activePointersCounter = 1
    /\ capCalls = <<[op |-> "releasePointerCapture", target |-> "DIV",
                     pointerId |-> last.pointerId]>>

(* -------------------------------- C13 ----------------------------------- *)

\* The step hands a pointermove to its listener and the listener lets it
\* through both the touch filter and the stylus filter.
MoveForwarded ==
    /\ last'.op = "pointermove"
    /\ last'.pointerType # "touch"
    /\ ~(/\ last'.pointerType = "pen"
         /\ last'.x = lastPosition.x
         /\ last'.y = lastPosition.y)

\* C13 as stated: a forwarded pointermove emits ENTER, MOVE, LEAVE or
\* OUT_OF_BOUNDS by whether the id was listed in pointersInBounds and
\* whether the point is in the bounds, adding the id on ENTER, removing it
\* on LEAVE and leaving pointersInBounds alone otherwise.
C13_FourCases ==
    [][MoveForwarded
       => LET was == last'.pointerId \in InBoundsIds
              inside == isPointerInBounds(last'.x, last'.y)
          IN  /\ (~was /\ inside)
                 => /\ Emitted' = <<"ENTER">>
                    /\ InBoundsIds' = InBoundsIds \cup {last'.pointerId}
              /\ (was /\ inside)
                 => /\ Emitted' = <<"MOVE">>
                    /\ pointersInBounds' = pointersInBounds
              /\ (was /\ ~inside)
                 => /\ Emitted' = <<"LEAVE">>
                    /\ InBoundsIds' = InBoundsIds \ {last'.pointerId}
              /\ (~was /\ ~inside)
                 => /\ Emitted' = <<"OUT_OF_BOUNDS">>
                    /\ pointersInBounds' = pointersInBounds
      ]_vars

\* C13, amended: the four cases are as stated, except that the call of the
\* fourth (not listed, outside) is onPointerOutOfBounds with an event whose
\* eventType is MOVE.  A mouse that left the bounds gets
\* onPointerOutOfBounds on its next move outside.
C13_FourCasesOutOfBoundsAsMove ==
    [][/\ MoveForwarded
          => LET was == last'.pointerId \in InBoundsIds
                 inside == isPointerInBounds(last'.x, last'.y)
                 id == last'.pointerId
             IN  /\ (~was /\ inside)
                    => /\ calls' = <<[callback |-> "onPointerEnter",
                                      event |-> [pointerId |-> id,
                                                 eventType |-> "ENTER"]]>>
                       /\ pointersInBounds' = Append(pointersInBounds, id)
                 /\ (was /\ inside)
                    => /\ calls' = <<[callback |-> "onPointerMove",
                                      event |-> [pointerId |-> id,
                                                 eventType |-> "MOVE"]]>>
                       /\ pointersInBounds' = pointersInBounds
                 /\ (was /\ ~inside)
                    => /\ calls' = <<[callback |-> "onPointerLeave",
                                      event |-> [pointerId |-> id,
                                                 eventType |-> "LEAVE"]]>>
                       /\ InBoundsIds' = InBoundsIds \ {id}
                       /\ Len(pointersInBounds') = Len(pointersInBounds) - 1
                 /\ (~was /\ ~inside)
                    => /\ calls' = <<[callback |-> "onPointerOutOfBounds",
                                      event |-> [pointerId |-> id,
                                                 eventType |-> "MOVE"]]>>
                       /\ pointersInBounds' = pointersInBounds
       /\ (/\ last.op = "pointermove"
           /\ Callbacks = <<"onPointerLeave">>
           /\ last'.op = "pointermove"
           /\ last'.pointerType = "mouse"
           /\ last'.pointerId = last.pointerId
           /\ ~isPointerInBounds(last'.x, last'.y))
          => Callbacks' = <<"onPointerOutOfBounds">>
      ]_vars

\* A pressed mouse pointer left the bounds: LEAVE was emitted, the pointer
\* is still tracked and is no longer listed, the other pointer still is.
C13_Witness ==
    /\ last.op = "pointermove"
    /\ last.pointerType = "mouse"
    /\ last.pointerId = 1
    /\ Emitted = <<"LEAVE">>
    /\ 1 \in trackedPointers
    /\ pointersInBounds = <<2>>

(* -------------------------------- C14 ----------------------------------- *)

\* C14: a pointerup of a non-touch device that arrives while the counter is
\* above 0 lowers the counter by exactly 1 and makes one call: onPointerUp
\* with UP if the counter is 0 afterwards, else onPointerRemove with
\* ADDITIONAL_POINTER_UP.  Whatever the operation, UP is emitted only by a
\* step that takes the counter from above 0 to 0, and after an
\* ADDITIONAL_POINTER_UP the counter is above 0.
C14_UpOrAdditionalUp ==
    [][/\ (/\ last'.op = "pointerup"
           /\ last'.pointerType # "touch"
           /\ activePointersCounter > 0)
          => /\ activePointersCounter' = activePointersCounter - 1
             /\ calls' = <<IF activePointersCounter' = 0
                           THEN [callback |-> "onPointerUp",
                                 event |-> [pointerId |-> last'.pointerId,
                                            eventType |-> "UP"]]
                           ELSE [callback |-> "onPointerRemove",
                                 event |-> [pointerId |-> last'.pointerId,
                                            eventType |->
                                                "ADDITIONAL_POINTER_UP"]]>>
       /\ (\E i \in 1..Len(calls') :
               \/ calls'[i].event.eventType = "UP"
               \/ calls'[i].callback = "onPointerUp")
          => /\ activePointersCounter > 0
             /\ activePointersCounter' = 0
       /\ (\E i \in 1..Len(calls') :
               \/ calls'[i].event.eventType = "ADDITIONAL_POINTER_UP"
               \/ calls'[i].callback = "onPointerRemove")
          => activePointersCounter' > 0
      ]_vars

\* One of two pressed pointers went up: ADDITIONAL_POINTER_UP was emitted
\* and one pointer is still counted.
C14_Witness ==
    /\ last.op = "pointerup"
    /\ last.pointerType # "touch"
    /\ Emitted = <<"ADDITIONAL_POINTER_UP">>
    /\ Callbacks = <<"onPointerRemove">>
    /\ activePointersCounter = 1

(* -------------------------------- C15 ----------------------------------- *)

\* C15: a lostpointercapture whose id is in trackedPointers calls
\* onPointerCancel once, with eventType CANCEL, and leaves the counter 0 and
\* trackedPointers empty; one whose id is not in trackedPointers makes no
\* call and changes nothing.
C15_LostCaptureCancelsTracked ==
    [][last'.op = "lostpointercapture"
       => IF last'.pointerId \in trackedPointers
          THEN /\ calls' = <<[callback |-> "onPointerCancel",
                              event |-> [pointerId |-> last'.pointerId,
                                         eventType |-> "CANCEL"]]>>
               /\ activePointersCounter' = 0
               /\ trackedPointers' = {}
          ELSE /\ calls' = <<>>
               /\ capCalls' = <<>>
               /\ UNCHANGED <<activePointersCounter, trackedPointers,
                              pointersInBounds, lastPosition>>
      ]_vars

\* Capture was lost while two pointers were pressed: one onPointerCancel,
\* nothing tracked or counted any more.
C15_Witness ==
    /\ last.op = "lostpointercapture"
    /\ Callbacks = <<"onPointerCancel">>
    /\ Emitted = <<"CANCEL">>
    /\ activePointersCounter = 0
    /\ trackedPointers = {}
    /\ pointersInBounds = <<1, 2>>

(* -------------------------------- C16 ----------------------------------- *)

\* C16 as stated: after a pointerup or a pointercancel of a non-touch
\* device the event's id is not listed in pointersInBounds, in whatever
\* state the notification arrived.
C16_NotInBoundsAfterUpOrCancel ==
    (/\ last.op \in {"pointerup", "pointercancel"}
     /\ last.pointerType # "touch")
    => last.pointerId \notin InBoundsIds

\* C16, amended: after a pointercancel of a non-touch device, and after a
\* pointerup of a non-touch device that arrived while the counter was above
\* 0, the event's id is not listed in pointersInBounds; a pointerup that
\* arrives at counter 0 leaves pointersInBounds as it was.
C16_NotInBoundsAfterProcessedUpOrCancel ==
    [][/\ (/\ last'.pointerType # "touch"
           /\ \/ last'.op = "pointercancel"
              \/ last'.op = "pointerup" /\ activePointersCounter > 0)
          => /\ last'.pointerId \notin InBoundsIds'
             /\ InBoundsIds' = InBoundsIds \ {last'.pointerId}
       /\ (last'.op = "pointerup" /\ activePointersCounter = 0)
          => pointersInBounds' = pointersInBounds
      ]_vars

\* A pointercancel for the first of two pressed pointers: that pointer is
\* no longer listed, the second still is.
C16_Witness ==
    /\ last.op = "pointercancel"
    /\ last.pointerType # "touch"
    /\ last.pointerId = 1
    /\ Callbacks = <<"onPointerCancel">>
    /\ pointersInBounds = <<2>>

(* -------------------------------- C17 ----------------------------------- *)

\* C17: a forwarded pointermove calls setPointerCapture for the event's id,
\* once, exactly when the target does not hold the capture of that id and
\* is not SELECT or INPUT, and makes no capture call otherwise; so no
\* request is made while hasPointerCapture is true, and a move that follows
\* a move whose request did not take makes the request again.
C17_CaptureRetriedUntilHeld ==
    [][/\ MoveForwarded
          => capCalls' = IF /\ last'.hasPointerCapture = FALSE
                            /\ last'.tagName \notin {"SELECT", "INPUT"}
                         THEN <<[op |-> "setPointerCapture",
                                 target |-> last'.tagName,
                                 pointerId |-> last'.pointerId]>>
                         ELSE <<>>
       /\ (/\ last.op = "pointermove"
           /\ capCalls # <<>>
           /\ MoveForwarded
           /\ last'.pointerId = last.pointerId
           /\ last'.tagName = last.tagName
           /\ last'.hasPointerCapture = FALSE)
          => /\ Len(capCalls') = 1
             /\ capCalls'[1].op = "setPointerCapture"
             /\ capCalls'[1].pointerId = last.pointerId
      ]_vars

\* A pressed pointer moved while its target did not hold the capture: the
\* move made the request again.
C17_Witness ==
    /\ last.op = "pointermove"
    /\ last.pointerType = "mouse"
    /\ last.hasPointerCapture = FALSE
    /\ last.pointerId \in trackedPointers
    /\ capCalls = <<[op |-> "setPointerCapture", target |-> "DIV",
                     pointerId |-> last.pointerId]>>

(* -------------------------------- C18 ----------------------------------- *)

\* C18: on well-formed input the number of ids in trackedPointers equals
\* the counter in every reachable state, whatever pointercancel,
\* lostpointercapture and resetManager (also from inside a callback) come
\* in between.
C18_WellFormedTrackedMatchesCounter ==
    /\ Cardinality(trackedPointers) = activePointersCounter
    /\ activePointersCounter \in 0..Cardinality(PointerIds)

\* A second pointer went down while the first was pressed, and a
\* pointerup released one of the two.
C18_Witness ==
    /\ last.op = "pointerup"
    /\ Emitted = <<"ADDITIONAL_POINTER_UP">>
    /\ activePointersCounter = 1
    /\ Cardinality(trackedPointers) = 1
    /\ last.pointerId \notin trackedPointers

(* -------------------------------- C19 ----------------------------------- *)

\* C19: when the callback of a listener has called resetManager before
\* returning, the counter is 0 and trackedPointers is empty as the listener
\* returns.
C19_ResetInsideCallbackSurvives ==
    reentered => /\ activePointersCounter = 0
                 /\ trackedPointers = {}

\* resetManager was called from inside onPointerAdd, the callback of the
\* pointerdown of a second pointer.
C19_Witness ==
    /\ reentered
    /\ last.op = "pointerdown"
    /\ Callbacks = <<"onPointerAdd">>
    /\ pointersInBounds = <<1, 2>>
    /\ activePointersCounter = 0
    /\ trackedPointers = {}

(* -------------------------------- C20 ----------------------------------- *)

\* C20: a DOWN is emitted only when no earlier DOWN is still open (an UP, a
\* CANCEL or a resetManager call came since the last DOWN, or there was
\* none); an UP or an ADDITIONAL_POINTER_UP is emitted only when a DOWN was
\* emitted before it with no CANCEL and no resetManager call in between.
C20_DownAndUpAlternate ==
    [][/\ (\E i \in 1..Len(calls') : calls'[i].event.eventType = "DOWN")
          => ~history.open
       /\ (\E i \in 1..Len(calls') :
               calls'[i].event.eventType \in {"UP", "ADDITIONAL_POINTER_UP"})
          => history.live
      ]_vars

\* The one pressed pointer went up: UP was emitted, closing the gesture
\* that the DOWN before it had opened.
C20_Witness ==
    /\ last.op = "pointerup"
    /\ Emitted = <<"UP">>
    /\ ~reentered
    /\ history = [open |-> FALSE, live |-> TRUE]

====
